---- MODULE Spec2Model ----
(***************************************************************************)
(* DocRAG: PDF -> extract -> chunk -> embed -> FAISS index -> retrieve ->   *)
(* answer.  Model of src/rag_pipeline.py (chunk_pages, build_index,        *)
(* retrieve, process_pdf, query) and of the session script src/app.py.     *)
(*                                                                         *)
(* Three state machines share the variables:                               *)
(*   SpecChunk    - the loops of chunk_pages, one action per iteration     *)
(*   SpecRetrieve - retrieve() applied to drawn (chunks, index, query, k)  *)
(*   SpecSession  - the Streamlit script, one action per script run; the   *)
(*                  run of a Clear Session click ends at st.rerun()        *)
(* A text is a sequence of one-character strings.                          *)
(***************************************************************************)
EXTENDS Integers, Sequences, FiniteSets, TLC

VARIABLES
    \* chunk_pages (rag_pipeline.py:60-92)
    pages,      \* the argument: sequence of [page, text]
    pgi,        \* position of the `for pg in pages` loop (0 = not started)
    start,      \* the cursor of the while loop
    chunks,     \* the list being built
    cid,        \* next chunk id
    spans,      \* (start, end) of every window visited on the current page
    pc,         \* "for" | "while" | "done" | "idle"
    \* retrieve (rag_pipeline.py:116-134)
    r_chunks, r_index, r_query, top_k, r_out,
    \* the process-wide embedder (rag_pipeline.py:96-102), a function of the text
    embedder,
    \* the Streamlit session (app.py:142-256)
    keys,          \* the keys present in st.session_state
    ss_chunks, faiss_index, history,   \* their values, None while absent
    uploaded,      \* the file in the uploader
    chat_enabled,  \* the chat input as last rendered (app.py:206-209)
    retrieved, event

vars == <<pages, pgi, start, chunks, cid, spans, pc,
          r_chunks, r_index, r_query, top_k, r_out, embedder,
          keys, ss_chunks, faiss_index, history, uploaded, chat_enabled,
          retrieved, event>>

chunkVars   == <<pages, pgi, start, chunks, cid, spans, pc>>
retrVars    == <<r_chunks, r_index, r_query, top_k, r_out>>
sessionVars == <<keys, ss_chunks, faiss_index, history, uploaded,
                 chat_enabled, retrieved, event>>

-----------------------------------------------------------------------------
(* Constants of rag_pipeline.py *)
CHUNK_SIZE    == 500
CHUNK_OVERLAP == 50
CHARS_PER_TOK == 4
TOP_K         == 5

char_size    == CHUNK_SIZE * CHARS_PER_TOK
char_overlap == CHUNK_OVERLAP * CHARS_PER_TOK

\* Python's None and a present value, kept apart from every list
None    == <<>>
Some(v) == <<v>>

Min(a, b) == IF a < b THEN a ELSE b

\* F(v) with v evaluated once, however often F reads its argument
Bind(v, F(_)) == CHOOSE r \in {F(x) : x \in {v}} : TRUE

-----------------------------------------------------------------------------
(* Characters and the str methods the code uses *)
UpperChars == {"A", "B"}
LowerChars == {"a", "b"}
SpaceChars == {" ", "\n", "\t"}

IsSpace(c) == c \in SpaceChars
IsUpper(c) == c \in UpperChars
IsLower(c) == c \in LowerChars
IsCased(c) == IsUpper(c) \/ IsLower(c)

Rep(c, n) == [i \in 1..n |-> c]

\* str.strip(): drop leading and trailing whitespace
strip(s) ==
    IF \A i \in 1..Len(s) : IsSpace(s[i]) THEN <<>>
    ELSE LET first == CHOOSE i \in 1..Len(s) :
                         /\ ~IsSpace(s[i])
                         /\ \A j \in 1..(i - 1) : IsSpace(s[j])
             last  == CHOOSE i \in 1..Len(s) :
                         /\ ~IsSpace(s[i])
                         /\ \A j \in (i + 1)..Len(s) : IsSpace(s[j])
         IN  SubSeq(s, first, last)

\* str.isupper(): at least one cased character and no lowercase one
isupper(s) ==
    /\ \E i \in 1..Len(s) : IsCased(s[i])
    /\ \A i \in 1..Len(s) : ~IsLower(s[i])

\* str.istitle(): uppercase only after uncased, lowercase only after cased
istitle(s) ==
    /\ \E i \in 1..Len(s) : IsCased(s[i])
    /\ \A i \in 1..Len(s) :
          LET prevCased == i > 1 /\ IsCased(s[i - 1])
          IN  /\ IsUpper(s[i]) => ~prevCased
              /\ IsLower(s[i]) => prevCased

\* len(s.split()): the number of whitespace-separated words
WordCount(s) ==
    Cardinality({i \in 1..Len(s) :
                    ~IsSpace(s[i]) /\ (i = 1 \/ IsSpace(s[i - 1]))})

\* index of the first "\n" after position p, Len(s)+1 when there is none
NextNewline(s, p) ==
    IF \E i \in (p + 1)..Len(s) : s[i] = "\n"
    THEN CHOOSE i \in (p + 1)..Len(s) :
            /\ s[i] = "\n"
            /\ \A j \in (p + 1)..(i - 1) : s[j] # "\n"
    ELSE Len(s) + 1

\* s.split("\n")[:k], reading from position p+1
RECURSIVE FirstLines(_, _, _)
FirstLines(s, p, k) ==
    IF k = 0 THEN <<>>
    ELSE LET e == NextNewline(s, p)
         IN  <<SubSeq(s, p + 1, e - 1)>> \o
             (IF e > Len(s) THEN <<>> ELSE FirstLines(s, e, k - 1))

Body == <<"B", "o", "d", "y">>

IsHeading(line) ==
    Len(line) > 3 /\ (isupper(line) \/ (istitle(line) /\ WordCount(line) <= 8))

\* the first of the lines that is a heading, "Body" when none is
FirstHeading(lines) ==
    IF \E i \in 1..Len(lines) : IsHeading(lines[i])
    THEN lines[CHOOSE i \in 1..Len(lines) :
                  /\ IsHeading(lines[i])
                  /\ \A j \in 1..(i - 1) : ~IsHeading(lines[j])]
    ELSE Body

\* for line in text.split("\n")[:5]: line = line.strip(); ...
StrippedLines(lines) == [i \in 1..Len(lines) |-> Bind(lines[i], strip)]

detect_section(text) ==
    Bind(Bind(FirstLines(text, 0, 5), StrippedLines), FirstHeading)

-----------------------------------------------------------------------------
(* chunk_pages *)

\* end = min(start + char_size, len(text))
WindowEnd(text, s) == Min(s + char_size, Len(text))

\* text[start:end].strip()
ChunkText(text, s) == Bind(SubSeq(text, s + 1, WindowEnd(text, s)), strip)

ShouldEmitAlways(chunk_text) == TRUE

\* if chunk_text:
ShouldEmit(chunk_text) == chunk_text # <<>>

NextStartNoOverlap(text, s) == s + char_size

NextStartStall(text, s) ==
    IF ChunkText(text, s) # <<>> THEN s + char_size - char_overlap ELSE s

\* start += char_size - char_overlap
NextStart(text, s) == s + char_size - char_overlap

Chunk(text, page, section, chunk_id) ==
    [text |-> text, page |-> page, section |-> section, chunk_id |-> chunk_id]

\* one iteration of the while loop: the chunk list and the id after it
Emit(cs, id, text, page_no, s) ==
    Bind(ChunkText(text, s), LAMBDA chunk_text :
        IF ShouldEmit(chunk_text)
        THEN [chunks |-> Append(cs, Chunk(chunk_text, page_no,
                                          detect_section(chunk_text), id)),
              cid    |-> id + 1]
        ELSE [chunks |-> cs, cid |-> id])

RECURSIVE ChunkPage(_, _, _, _)
\* the while loop of one page, from cursor s
ChunkPage(text, page_no, s, acc) ==
    IF s < Len(text)
    THEN LET e == Emit(acc.chunks, acc.cid, text, page_no, s)
             n == NextStart(text, s)
         IN  IF n >= Len(text) THEN e ELSE ChunkPage(text, page_no, n, e)
    ELSE acc

RECURSIVE ChunkFrom(_, _, _)
ChunkFrom(pgs, i, acc) ==
    IF i > Len(pgs) THEN acc
    ELSE ChunkFrom(pgs, i + 1, ChunkPage(pgs[i].text, pgs[i].page, 0, acc))

\* chunk_pages as a function of its argument
chunk_pages(pgs) == ChunkFrom(pgs, 1, [chunks |-> <<>>, cid |-> 0]).chunks

-----------------------------------------------------------------------------
(* Inputs of the chunker: page texts around the window boundaries *)
MaxPages == 2

step == char_size - char_overlap

Heading == <<"B", "B", "B", "B", "\n">>

\* lead spaces, body letters, gap spaces, tail letters
Text(lead, body, gap, tail) ==
    Rep(" ", lead) \o Rep("a", body) \o Rep(" ", gap) \o Rep("a", tail)

PageTexts ==
    { Text(0, 0, 0, 0),                        \* empty page
      Text(1, 0, 0, 0),                        \* blank page
      Text(0, 1, 0, 0),
      Text(0, step, 0, 0),                     \* one window, cursor lands on the end
      Text(0, step + 100, 0, 0),               \* second window starts in a short first one
      Text(0, char_size, 0, 0),
      Text(2, char_size - 1, 0, 0),
      Text(0, 2 * step + char_overlap, 1, 0),
      Text(2, 100, 2 * step + 98, 100),        \* blank window in the middle
      Text(0, 5, char_size + 500, 0),          \* blank window at the end
      Heading \o Text(0, 3, char_size, 1) }

\* extract_pages numbers the pages 1, 2, ...
PagesOf(texts) == [i \in 1..Len(texts) |-> [page |-> i, text |-> texts[i]]]

TextSeqs(n) == UNION {[1..k -> PageTexts] : k \in 0..n}

-----------------------------------------------------------------------------
(* Values of the variables a state machine does not use *)
NotCalled == [raised |-> "pending"]
NoEvent   == [kind |-> "idle", ingest |-> "skipped", query |-> "none",
              computed |-> <<>>]

ChunkIdle ==
    /\ pages = <<>> /\ pgi = 0 /\ start = 0 /\ chunks = <<>> /\ cid = 0
    /\ spans = <<>> /\ pc = "idle"

RetrIdle ==
    /\ r_chunks = <<>> /\ r_index = <<>> /\ r_query = <<>> /\ top_k = 0
    /\ r_out = NotCalled

SessionIdle ==
    /\ keys = {} /\ ss_chunks = None /\ faiss_index = None /\ history = None
    /\ uploaded = None /\ chat_enabled = FALSE
    /\ retrieved = None /\ event = NoEvent

-----------------------------------------------------------------------------
(* SpecChunk: chunk_pages, one action per loop iteration *)
InitChunk ==
    /\ pages \in {PagesOf(t) : t \in TextSeqs(MaxPages)}
    /\ pgi = 0 /\ start = 0 /\ chunks = <<>> /\ cid = 0 /\ spans = <<>>
    /\ pc = "for"
    /\ RetrIdle /\ SessionIdle /\ embedder = <<>>

\* for pg in pages: text = pg["text"]; start = 0
ForNext ==
    /\ pc = "for" /\ pgi < Len(pages)
    /\ pgi' = pgi + 1 /\ start' = 0 /\ spans' = <<>> /\ pc' = "while"
    /\ UNCHANGED <<pages, chunks, cid, retrVars, sessionVars, embedder>>

\* return chunks
ForEnd ==
    /\ pc = "for" /\ pgi = Len(pages)
    /\ pc' = "done"
    /\ UNCHANGED <<pages, pgi, start, chunks, cid, spans,
                   retrVars, sessionVars, embedder>>

\* one pass of the while body (lines 74-90)
WhileIter ==
    /\ pc = "while" /\ start < Len(pages[pgi].text)
    /\ \E text \in {pages[pgi].text} :
       \E e \in {Emit(chunks, cid, text, pages[pgi].page, start)} :
           /\ chunks' = e.chunks
           /\ cid' = e.cid
           /\ spans' = Append(spans, <<start, WindowEnd(text, start)>>)
           /\ start' = NextStart(text, start)
           /\ pc' = IF start' >= Len(text) THEN "for" ELSE "while"
    /\ UNCHANGED <<pages, pgi, retrVars, sessionVars, embedder>>

\* while start < len(text) is false on entry
WhileExit ==
    /\ pc = "while" /\ ~(start < Len(pages[pgi].text))
    /\ pc' = "for"
    /\ UNCHANGED <<pages, pgi, start, chunks, cid, spans,
                   retrVars, sessionVars, embedder>>

NextChunk == ForNext \/ ForEnd \/ WhileIter \/ WhileExit

SpecChunk == InitChunk /\ [][NextChunk]_vars

FairSpecChunk == SpecChunk /\ WF_vars(NextChunk)

-----------------------------------------------------------------------------
(* build_index, index.search and retrieve *)

\* normalised embeddings: unit vectors, so that inner product = cosine
Vecs == {<<1, 0>>, <<0, 1>>, <<-1, 0>>}

InnerProduct(u, v) == u[1] * v[1] + u[2] * v[2]

\* the score IndexFlatIP reports for the padding entries (lowest float)
PadScore == 0 - 1000

Pad == [id |-> -1, score |-> PadScore]

Injective(f) == \A a, b \in DOMAIN f : a # b => f[a] # f[b]

\* The k-best heap of index.search while it scans the rows: the set of row
\* ids it holds (its other entries are still padding).
\* lowest score among the rows held
HeapMin(sc, held) == CHOOSE v \in {sc[e] : e \in held} :
                        \A e \in held : v <= sc[e]

\* Row r meets the heap.  While padding is left the row takes its place.
\* On a full heap the row enters only with a score strictly greater than the
\* lowest one held, and puts out a row of that lowest score; which of several
\* such rows is not fixed by the library, so each is an outcome.
HeapAdd(sc, k, held, r) ==
    IF Cardinality(held) < k THEN {held \cup {r}}
    ELSE IF k > 0 /\ sc[r] > HeapMin(sc, held)
         THEN {(held \ {e}) \cup {r} :
                  e \in {x \in held : sc[x] = HeapMin(sc, held)}}
    ELSE {held}

RECURSIVE HeapScan(_, _, _, _, _)
\* rows r, r + 1, ..., n - 1 in id order, from each heap of `heaps`
HeapScan(sc, n, k, r, heaps) ==
    IF r >= n THEN heaps
    ELSE HeapScan(sc, n, k, r + 1,
                  UNION {HeapAdd(sc, k, held, r) : held \in heaps})

\* index.search(q_vec, top_k) on an IndexFlatIP holding the rows `index`
\* (row ids are 0-based): the rows are scanned in id order into a heap of
\* top_k entries, so that of rows with equal score at the cut the earlier
\* ones stay; the rows held are reported best first, then (id -1, lowest
\* score) up to top_k entries.  The order in which the heap gives out rows of
\* equal score is not fixed by the library: every such order is an outcome.
Search(index, q_vec, k) ==
    LET n  == Len(index)
        m  == Min(k, n)
        sc == [r \in 0..(n - 1) |-> InnerProduct(index[r + 1], q_vec)]
        picks == UNION {{f \in [1..m -> held] :
                           /\ Injective(f)
                           /\ \A i \in 1..(m - 1) : sc[f[i]] >= sc[f[i + 1]]} :
                        held \in HeapScan(sc, n, k, 0, {{}})}
    IN  {[i \in 1..k |-> IF i <= m THEN [id |-> f[i], score |-> sc[f[i]]]
                                   ELSE Pad] : f \in picks}

SkipRowNever(idx) == FALSE

\* if idx == -1: continue
SkipRow(idx) == idx = -1

\* chunks[idx] of a Python list: negative indexes count from the end
PyIndexOk(list, idx) == -Len(list) <= idx /\ idx < Len(list)
PyIndex(list, idx) ==
    IF idx >= 0 THEN list[idx + 1] ELSE list[Len(list) + idx + 1]

Result(c, score) ==
    [chunk_id |-> c.chunk_id, page |-> c.page, section |-> c.section,
     text |-> c.text, score |-> score]

PrependResult(results, r) == <<r>> \o results

\* results.append({...})
AppendResult(results, r) == Append(results, r)

RECURSIVE RetrieveLoop(_, _, _, _)
\* for score, idx in zip(scores[0], ids[0]): ...
RetrieveLoop(cs, found, i, results) ==
    IF i > Len(found) THEN [raised |-> "no", results |-> results]
    ELSE IF SkipRow(found[i].id)
         THEN RetrieveLoop(cs, found, i + 1, results)
    ELSE IF ~PyIndexOk(cs, found[i].id)
         THEN [raised |-> "IndexError", results |-> <<>>]
    ELSE RetrieveLoop(cs, found, i + 1,
            AppendResult(results, Result(PyIndex(cs, found[i].id),
                                         found[i].score)))

\* retrieve(query, chunks, index, top_k), given what index.search returned
Retrieve(cs, found) == RetrieveLoop(cs, found, 1, <<>>)

\* build_index: one row per chunk, row i the embedding of chunk i;
\* encode([]) yields an array without a second axis and vecs.shape[1] raises
BuildIndexOk(cs) == cs # <<>>
build_index(cs, emb) == [i \in 1..Len(cs) |-> emb[cs[i].text]]

-----------------------------------------------------------------------------
(* SpecRetrieve: retrieve() on drawn arguments *)
MaxRows == 3
MaxK    == 4

Questions == {<<"q">>, <<"A", "b">>}

\* a chunk list as chunk_pages numbers it: ids 0, 1, ... in order
SomeChunks(n) ==
    [i \in 1..n |-> Chunk(Rep("a", i), i, Body, i - 1)]

InitRetrieve ==
    /\ r_chunks \in {SomeChunks(n) : n \in 0..MaxRows}
    /\ r_index \in UNION {[1..n -> Vecs] : n \in 0..MaxRows}
    /\ r_query \in Questions
    /\ embedder \in [{r_query} -> Vecs]
    /\ top_k \in 1..MaxK
    /\ r_out = NotCalled
    /\ ChunkIdle /\ SessionIdle

\* one call of retrieve(r_query, r_chunks, r_index, top_k)
RetrieveCall ==
    /\ r_out = NotCalled
    /\ \E found \in Search(r_index, embedder[r_query], top_k) :
          r_out' = [found |-> found] @@ Retrieve(r_chunks, found)
    /\ UNCHANGED <<r_chunks, r_index, r_query, top_k, embedder,
                   chunkVars, sessionVars>>

NextRetrieve == RetrieveCall

SpecRetrieve == InitRetrieve /\ [][NextRetrieve]_vars

-----------------------------------------------------------------------------
(* process_pdf, query and the session script app.py *)

\* The documents a user can upload.  fitz.open raises on the unreadable one.
DocIds == {"corrupt", "blank", "report", "memo"}

Doc(d) ==
    CASE d = "corrupt" -> [readable |-> FALSE, texts |-> <<>>]
      [] d = "blank"   -> [readable |-> TRUE,  texts |-> <<Text(3, 0, 0, 0)>>]
      [] d = "report"  -> [readable |-> TRUE,
                           texts |-> <<Heading \o Text(0, 3, 0, 0),
                                       Text(0, step + 100, 0, 0)>>]
      [] d = "memo"    -> [readable |-> TRUE,  texts |-> <<Text(1, 5, 2, 0)>>]

\* extract_pages: pages numbered from 1, in order
extract_pages(d) == PagesOf(Doc(d).texts)

\* process_pdf: extract, chunk, build the index; nothing is returned when a
\* step raises
process_pdf(d, emb) ==
    IF ~Doc(d).readable
    THEN [raised |-> "ExtractionError", chunks |-> <<>>, index |-> <<>>]
    ELSE Bind(chunk_pages(extract_pages(d)), LAMBDA cs :
            IF ~BuildIndexOk(cs)
            THEN [raised |-> "IndexError", chunks |-> <<>>, index |-> <<>>]
            ELSE [raised |-> "no", chunks |-> cs,
                  index |-> build_index(cs, emb)])

\* the reply of the answer-generation service
Answer == "answer"

\* query(): retrieve, then ask_groq; an exception of either leaves through
\* query and nothing is returned
Query(cs, found, genOk) ==
    Bind(Retrieve(cs, found), LAMBDA r :
        IF r.raised # "no"
        THEN [raised |-> r.raised, computed |-> <<>>]
        ELSE IF ~genOk
        THEN [raised |-> "GenerationError", computed |-> r.results]
        ELSE [raised |-> "no", computed |-> r.results,
              answer |-> Answer, retrieved |-> r.results])

ProcessBlockChunksFirst(up, ch, ix, emb) ==
    IF up # None /\ ch = None
    THEN Bind(process_pdf(up[1], emb), LAMBDA r :
            IF r.raised = "no"
            THEN [chunks |-> Some(r.chunks), index |-> Some(r.index),
                  ingest |-> "ok"]
            ELSE IF r.raised = "IndexError"
            THEN [chunks |-> Some(<<>>), index |-> ix, ingest |-> "failed"]
            ELSE [chunks |-> ch, index |-> ix, ingest |-> "failed"])
    ELSE [chunks |-> ch, index |-> ix, ingest |-> "skipped"]

\* app.py 153-162: if uploaded and session chunks is None: try process_pdf
ProcessBlock(up, ch, ix, emb) ==
    IF up # None /\ ch = None
    THEN Bind(process_pdf(up[1], emb), LAMBDA r :
            IF r.raised = "no"
            THEN [chunks |-> Some(r.chunks), index |-> Some(r.index),
                  ingest |-> "ok"]
            ELSE [chunks |-> ch, index |-> ix, ingest |-> "failed"])
    ELSE [chunks |-> ch, index |-> ix, ingest |-> "skipped"]

ClearedKeysNoIndex == {"chunks", "history"}

\* app.py 143: the keys Clear Session pops
ClearedKeys == {"chunks", "faiss_index", "history"}

\* app.py 148: the keys Session State Init provides
SessionKeys == {"chunks", "faiss_index", "history"}

\* app.py 148-150: a key that is absent gets its default (None, None, []),
\* a key that is present keeps its value
StateInit(ks, ch, ix, hist) ==
    [chunks  |-> IF "chunks" \in ks THEN ch ELSE None,
     index   |-> IF "faiss_index" \in ks THEN ix ELSE None,
     history |-> IF "history" \in ks THEN hist ELSE <<>>]

\* `if chunks:` / `disabled=(not chunks)`: the list is there and not empty
Truthy(ch) == ch # None /\ ch[1] # <<>>

MaxHistory == 2

SessionTexts ==
    UNION {{c.text : c \in {chunk_pages(extract_pages(d))[i] :
                              i \in 1..Len(chunk_pages(extract_pages(d)))}} :
           d \in {x \in DocIds : Doc(x).readable}}

\* the embeddings drawn for the session: the question's is fixed, a chunk
\* is either parallel or orthogonal to it
SessionQuestions == {<<"q">>}
QuestionVec      == <<1, 0>>
SessionVecs      == {<<1, 0>>, <<0, 1>>}

\* a new session after its first script run: nothing uploaded
InitSession ==
    /\ keys = SessionKeys
    /\ ss_chunks = None /\ faiss_index = None /\ history = <<>>
    /\ uploaded = None /\ chat_enabled = FALSE /\ retrieved = None
    /\ event = [NoEvent EXCEPT !.kind = "start"]
    /\ \E texts \in {SessionTexts} :
          embedder \in {e \in [texts \cup SessionQuestions -> SessionVecs] :
                          \A q \in SessionQuestions : e[q] = QuestionVec}
    /\ ChunkIdle /\ RetrIdle

\* a script run that carries no question and no Clear Session click, with
\* `up` in the uploader: state init, the PDF block, the chat input rendered
RunNoQuestion(kind, up) ==
    \E i \in {StateInit(keys, ss_chunks, faiss_index, history)} :
    \E r \in {ProcessBlock(up, i.chunks, i.index, embedder)} :
        /\ keys' = SessionKeys
        /\ ss_chunks' = r.chunks
        /\ faiss_index' = r.index
        /\ history' = i.history
        /\ uploaded' = up
        /\ chat_enabled' = Truthy(r.chunks)
        /\ retrieved' = None
        /\ event' = [kind |-> kind, ingest |-> r.ingest, query |-> "none",
                     computed |-> <<>>]
        /\ UNCHANGED <<embedder, chunkVars, retrVars>>

\* the user puts a file into the uploader: the script runs with it
Upload ==
    \E d \in DocIds :
        /\ uploaded # Some(d)
        /\ RunNoQuestion("upload", Some(d))

\* the user removes the file from the uploader
RemoveFile ==
    /\ uploaded # None
    /\ RunNoQuestion("remove", None)

\* the run st.rerun() starts, or any other widget interaction
Rerun ==
    \E up \in {uploaded} : RunNoQuestion("rerun", up)

\* the run of a Clear Session click (app.py 142-145): the keys are popped and
\* st.rerun() ends the run; state init, the PDF block and the chat input are
\* left to the next script run
ClearSession ==
    \E popped \in {ClearedKeys} :
        /\ keys' = keys \ popped
        /\ ss_chunks' = IF "chunks" \in popped THEN None ELSE ss_chunks
        /\ faiss_index' = IF "faiss_index" \in popped THEN None
                                                     ELSE faiss_index
        /\ history' = IF "history" \in popped THEN None ELSE history
        /\ retrieved' = None
        /\ event' = [kind |-> "clear", ingest |-> "skipped",
                     query |-> "none", computed |-> <<>>]
        /\ UNCHANGED <<uploaded, chat_enabled, embedder, chunkVars, retrVars>>

\* a question from the chat input, which takes one only while it is rendered
\* enabled: state init, the PDF block, then the query block (app.py 214-256)
Ask ==
    /\ chat_enabled
    /\ \E question \in SessionQuestions, genOk \in BOOLEAN :
       \E i \in {StateInit(keys, ss_chunks, faiss_index, history)} :
       \E p \in {ProcessBlock(uploaded, i.chunks, i.index, embedder)} :
          /\ Len(i.history) < MaxHistory
          /\ keys' = SessionKeys
          /\ ss_chunks' = p.chunks
          /\ faiss_index' = p.index
          /\ chat_enabled' = Truthy(p.chunks)
          /\ IF ~Truthy(p.chunks)
             THEN \* st.error("Please upload a PDF first.")
                  /\ retrieved' = None
                  /\ history' = i.history
                  /\ event' = [kind |-> "ask", ingest |-> p.ingest,
                               query |-> "no chunks", computed |-> <<>>]
             ELSE \E found \in Search(p.index[1], embedder[question], TOP_K) :
                  \E r \in {Query(p.chunks[1], found, genOk)} :
                     /\ IF r.raised = "no"
                        THEN /\ retrieved' = Some(r.retrieved)
                             /\ history' = Append(i.history,
                                   [question |-> question,
                                    answer |-> r.answer,
                                    retrieved |-> r.retrieved])
                        ELSE /\ retrieved' = None
                             /\ history' = i.history
                     /\ event' = [kind |-> "ask", ingest |-> p.ingest,
                                  query |-> r.raised,
                                  computed |-> r.computed]
    /\ UNCHANGED <<uploaded, embedder, chunkVars, retrVars>>

NextSession == Upload \/ RemoveFile \/ Rerun \/ ClearSession \/ Ask

SpecSession == InitSession /\ [][NextSession]_vars

-----------------------------------------------------------------------------
(* Claims about chunk_pages *)

PageDone == pc = "for" /\ pgi >= 1
CurLen   == Len(pages[pgi].text)

\* C1: no chunk in the list is empty after trimming, and the chunk at position
\* i (0-based) has chunk_id = i; the next id is the number of chunks emitted.
C1_DenseIdsNoEmpty ==
    pc # "idle" =>
        /\ cid = Len(chunks)
        /\ \A i \in 1..Len(chunks) :
              /\ chunks[i].chunk_id = i - 1
              /\ strip(chunks[i].text) # <<>>
              /\ chunks[i].text = strip(chunks[i].text)

\* a blank page was walked without emitting, and later chunks follow densely
C1_Witness ==
    /\ pc = "done" /\ Len(pages) = 2 /\ Len(chunks) >= 2
    /\ Len(pages[1].text) > 0
    /\ \A i \in 1..Len(chunks) : chunks[i].page = 2

\* C2: the windows visited on a page start at 0, step, 2*step, ... for every
\* offset below the text length, each spans [start, min(start+char_size, L)),
\* together they cover every position of the text, and consecutive windows
\* overlap by exactly char_overlap except where the last window is shorter.
C2_WindowsCoverWithOverlap ==
    (pc \in {"for", "while"} /\ pgi >= 1) =>
        /\ \A i \in 1..Len(spans) :
              /\ spans[i][1] = (i - 1) * (char_size - char_overlap)
              /\ spans[i][1] < CurLen
              /\ spans[i][2] = Min(spans[i][1] + char_size, CurLen)
        /\ PageDone =>
              /\ \A k \in 0..CurLen :
                    k * (char_size - char_overlap) < CurLen => k + 1 <= Len(spans)
              /\ \A p \in 1..CurLen :
                    \E i \in 1..Len(spans) : spans[i][1] < p /\ p <= spans[i][2]
              /\ \A i \in 1..(Len(spans) - 1) :
                    \/ spans[i][2] - spans[i + 1][1] = char_overlap
                    \/ /\ i + 1 = Len(spans)
                       /\ spans[i + 1][2] - spans[i + 1][1] < char_size

\* a finished page with a full overlap followed by a short last window
C2_Witness ==
    /\ PageDone /\ Len(spans) = 3
    /\ spans[1][2] - spans[2][1] = char_overlap
    /\ spans[3][2] - spans[3][1] < char_size

\* a finished page whose last pair overlaps by less than char_overlap
C2_WitnessShortOverlap ==
    /\ PageDone /\ Len(spans) = 2
    /\ spans[1][2] - spans[2][1] < char_overlap

\* every iteration, also one whose window is dropped, moves the cursor by
\* the same positive step char_size - char_overlap, and the page ends as soon
\* as the cursor reaches the text length
C9_CursorAdvances ==
    [][ (pc = "while" /\ start < CurLen) =>
            /\ char_size - char_overlap > 0
            /\ start' = start + (char_size - char_overlap)
            /\ (pc' = "for") <=> (start' >= CurLen) ]_vars

\* C9: the cursor advances as above on every iteration and the chunking
\* loop terminates: chunk_pages reaches its return.
C9_Terminates == C9_CursorAdvances /\ <>(pc = "done")

\* mid-page, after a window was dropped: two windows visited, one chunk
C9_Witness ==
    /\ pc = "while" /\ pgi = 1 /\ Len(spans) = 2 /\ cid = 1
    /\ start = 2 * (char_size - char_overlap) /\ start < CurLen

-----------------------------------------------------------------------------
(* Claims about retrieve *)

Returned == r_out.raised # "pending"
Paired   == Len(r_index) = Len(r_chunks)
RowScore(r) == InnerProduct(r_index[r + 1], embedder[r_query])

\* the rows of maximal similarity to the query
BestRows == {r \in 0..(Len(r_index) - 1) :
                \A q \in 0..(Len(r_index) - 1) : RowScore(r) >= RowScore(q)}

\* for k = 1 over a non-empty index: the single result is the row of maximal
\* similarity, the one with the lowest id among several
Top1LowestBest ==
    (top_k = 1 /\ Len(r_index) >= 1) =>
        /\ Len(r_out.results) = 1
        /\ r_out.results[1].chunk_id \in BestRows
        /\ \A r \in BestRows : r_out.results[1].chunk_id <= r

\* C3 as stated: results by non-increasing score, equal scores by ascending
\* row id; for k = 1 the result is the lowest-id row of maximal similarity.
C3_TiesByAscendingId ==
    (Returned /\ Paired) =>
        /\ r_out.raised = "no"
        /\ \A i \in 1..(Len(r_out.results) - 1) :
              \/ r_out.results[i].score > r_out.results[i + 1].score
              \/ /\ r_out.results[i].score = r_out.results[i + 1].score
                 /\ r_out.results[i].chunk_id < r_out.results[i + 1].chunk_id
        /\ Top1LowestBest

\* C3 amended: results are ordered by non-increasing score, with no order
\* promised among equal scores; each result carries the score and text of its
\* own row; no row left out has a higher score than a returned one; and for
\* k = 1 the single result is the row of globally maximal similarity, among
\* several maximal rows the one with the lowest id.
C3_SortedByScore ==
    (Returned /\ Paired) =>
        /\ r_out.raised = "no"
        /\ \A i \in 1..Len(r_out.results) :
              /\ r_out.results[i].chunk_id \in 0..(Len(r_index) - 1)
              /\ r_out.results[i].score = RowScore(r_out.results[i].chunk_id)
              /\ r_out.results[i].text = r_chunks[r_out.results[i].chunk_id + 1].text
        /\ \A i \in 1..(Len(r_out.results) - 1) :
              r_out.results[i].score >= r_out.results[i + 1].score
        /\ \A r \in 0..(Len(r_index) - 1) :
              (\A i \in 1..Len(r_out.results) : r_out.results[i].chunk_id # r)
                 => \A i \in 1..Len(r_out.results) :
                       r_out.results[i].score >= RowScore(r)
        /\ Top1LowestBest

\* two rows of equal score returned with the higher id first, then a
\* strictly worse row
C3_Witness ==
    /\ Returned /\ Paired /\ r_out.raised = "no" /\ Len(r_out.results) = 3
    /\ r_out.results[1].score = r_out.results[2].score
    /\ r_out.results[1].chunk_id > r_out.results[2].chunk_id
    /\ r_out.results[2].score > r_out.results[3].score

\* k = 1 over three rows: rows 1 and 2 are both the best, row 1 is returned
C3_WitnessTop1 ==
    /\ Returned /\ Paired /\ top_k = 1 /\ Len(r_index) = 3
    /\ r_out.raised = "no" /\ Len(r_out.results) = 1
    /\ BestRows = {1, 2}
    /\ r_out.results[1].chunk_id = 1

\* k = 2 over three rows of equal score: the two earlier rows are kept
C3_WitnessCut ==
    /\ Returned /\ Paired /\ top_k = 2 /\ Len(r_index) = 3
    /\ r_out.raised = "no" /\ BestRows = {0, 1, 2}
    /\ {r_out.results[i].chunk_id : i \in 1..2} = {0, 1}

\* C4: on an index of n rows paired with its n chunks, retrieve raises
\* nothing and returns exactly min(k, n) results; padding gives no result.
C4_ReturnsMinKN ==
    (Returned /\ Paired) =>
        /\ r_out.raised = "no"
        /\ Len(r_out.results) = Min(top_k, Len(r_index))
        /\ Len(r_index) = 0 => r_out.results = <<>>
        /\ \A i \in 1..Len(r_out.results) : r_out.results[i].score # PadScore

\* k exceeds n >= 1: the search padded, and all n chunks came back
C4_Witness ==
    /\ Returned /\ Paired /\ Len(r_index) = 2 /\ top_k = 4
    /\ r_out.found[3] = Pad /\ r_out.found[4] = Pad
    /\ r_out.raised = "no" /\ Len(r_out.results) = 2

\* the empty index: only padding, and the empty list
C4_WitnessEmpty ==
    /\ Returned /\ Len(r_index) = 0 /\ Len(r_chunks) = 0 /\ top_k = 2
    /\ r_out.found = <<Pad, Pad>> /\ r_out.results = <<>>

InRange(idx) == 0 <= idx /\ idx < Len(r_chunks)

RECURSIVE InRangeRows(_, _)
InRangeRows(found, i) ==
    IF i > Len(found) THEN <<>>
    ELSE (IF InRange(found[i].id) THEN <<found[i].id>> ELSE <<>>)
         \o InRangeRows(found, i + 1)

\* C5 as stated: every row id the search returns outside [0, len(chunks)) is
\* skipped without an error, and the in-range rows are returned in search
\* order.
C5_OutOfRangeSkipped ==
    Returned =>
        /\ r_out.raised = "no"
        /\ [i \in 1..Len(r_out.results) |-> r_out.results[i].chunk_id]
              = InRangeRows(r_out.found, 1)

-----------------------------------------------------------------------------
(* Claims about the session *)

\* what chunking makes of each readable document
ChunksOfDoc ==
    [d \in {x \in DocIds : Doc(x).readable} |-> chunk_pages(extract_pages(d))]

\* the documents whose ingestion succeeds: readable, with at least one chunk
Ingestible(d) == Doc(d).readable /\ ChunksOfDoc[d] # <<>>

\* the session holds the chunks of d and the index built from them
HoldsPairOf(d) ==
    /\ ss_chunks = Some(ChunksOfDoc[d])
    /\ faiss_index = Some([i \in 1..Len(ChunksOfDoc[d]) |->
                              embedder[ChunksOfDoc[d][i].text]])

\* C6 as stated: after the upload of a document whose ingestion succeeds the
\* session holds the pair built from that document, also when it held a pair
\* of an earlier document at the time of the upload.
C6_UploadReplacesPair ==
    (event.kind = "upload" /\ Ingestible(uploaded[1])) =>
        HoldsPairOf(uploaded[1])

\* C7: a script run whose ingestion fails stores no pair and leaves the
\* stored chunks, index and history as they were, and while no pair is stored
\* the three change only by a successful ingestion or by Clear Session.
C7_FailedIngestionKeepsState ==
    [][ /\ (event'.ingest = "failed") =>
              UNCHANGED <<ss_chunks, faiss_index, history>>
        /\ (event'.ingest = "failed") =>
              (ss_chunks' = None /\ faiss_index' = None)
        /\ (ss_chunks = None /\
              <<ss_chunks, faiss_index, history>>' # <<ss_chunks, faiss_index, history>>) =>
              (event'.ingest = "ok" \/ event'.kind = "clear") ]_vars

\* an upload whose index build failed: chunking gave no chunk
C7_Witness ==
    /\ event.kind = "upload" /\ event.ingest = "failed"
    /\ uploaded = Some("blank") /\ ss_chunks = None /\ faiss_index = None

\* an upload whose extraction failed
C7_WitnessExtraction ==
    /\ event.kind = "upload" /\ event.ingest = "failed"
    /\ uploaded = Some("corrupt") /\ ss_chunks = None

\* a failed ingestion in the run after a Clear Session click, carrying a
\* question: the file had been put in while an earlier pair was held
C7_WitnessAfterClear ==
    /\ event.kind = "ask" /\ event.ingest = "failed"
    /\ event.query = "no chunks"
    /\ uploaded = Some("blank") /\ ss_chunks = None /\ faiss_index = None

\* C8 as stated: when answer generation fails after retrieval succeeded, the
\* results retrieved for the question are still in the caller's hands.
C8_RetrievedKeptOnFailure ==
    event.query = "GenerationError" =>
        /\ event.computed # <<>>
        /\ retrieved = Some(event.computed)

\* C10: the stored chunks and index are both absent, or both present with
\* the index holding one row per stored chunk, row i the embedding of chunk
\* i, the chunks being those of one document.
C10_PairConsistent ==
    event.kind # "idle" =>
        /\ ("chunks" \in keys) <=> ("faiss_index" \in keys)
        /\ \/ ss_chunks = None /\ faiss_index = None
           \/ /\ ss_chunks # None /\ faiss_index # None
              /\ {"chunks", "faiss_index"} \subseteq keys
              /\ Len(faiss_index[1]) = Len(ss_chunks[1])
              /\ \A i \in 1..Len(ss_chunks[1]) :
                    faiss_index[1][i] = embedder[ss_chunks[1][i].text]
              /\ \E d \in DocIds : Ingestible(d) /\ HoldsPairOf(d)

\* the pair of an earlier document, queried once, while another document
\* sits in the uploader
C10_Witness ==
    /\ event.kind = "upload" /\ uploaded = Some("memo")
    /\ HoldsPairOf("report") /\ Len(ss_chunks[1]) = 3
    /\ Len(faiss_index[1]) = 3 /\ Len(history) = 1

\* the run of a Clear Session click has ended: the keys are gone while the
\* file is still in the uploader
C10_WitnessCleared ==
    /\ event.kind = "clear" /\ keys = {}
    /\ uploaded = Some("report") /\ ss_chunks = None /\ faiss_index = None

\* the pair ingested again by the run that follows a Clear Session click
C10_WitnessAfterClear ==
    /\ event.kind = "rerun" /\ event.ingest = "ok"
    /\ uploaded = Some("report") /\ HoldsPairOf("report")
    /\ history = <<>>

====
